---- MODULE Spec2Model ----
(***************************************************************************)
(* duplicates.py: duplicate file report via an SQLite table of file infos. *)
(* The model covers iterfilepaths, get_file_params, insert_fileinfos,      *)
(* add_md5sums, make_hash, build_db, get_duplicates_query, to_csv, main,   *)
(* the file system they read and the database file they write.             *)
(***************************************************************************)
EXTENDS Integers, Sequences, FiniteSets, TLC

VARIABLES
    fs,          \* the directory tree below START_DIR
    dbExists,    \* DB_PATH exists
    table,       \* the committed rows of table file
    txn,         \* the rows as the open transaction sees them
    stack,       \* iterfilepaths: the stack of directories to scan
    queue,       \* add_md5sums: the locations the query still delivers
    pc,          \* where main() stands
    err,         \* the exception that ended the run
    rec,         \* build_db: the recreate argument of this run
    built,       \* build_db went past its early return in this run
    insertDone,  \* the insert transaction of the store was committed
    result,      \* main: the rows the duplicates query delivered
    byLoc,       \* get_duplicates_query: the by_location argument
    report,      \* the lines of OUT_PATH
    yielded,     \* the paths iterfilepaths yielded in this run
    hashCalls,   \* the locations make_hash was called for in this run
    written,     \* the locations whose UPDATE was executed in this run
    interrupted, \* the phase in which this run was interrupted
    prevDone,    \* the run before this one wrote its report
    prevByLoc,   \* the by_location argument of the run before this one
    runs,        \* runs of main() started
    faults       \* files vanished

vars == <<fs, dbExists, table, txn, stack, queue, pc, err, rec, built,
          insertDone, result, byLoc, report, yielded, hashCalls, written,
          interrupted, prevDone, prevByLoc, runs, faults>>

(***************************************************************************)
(* Bounds of the model.                                                    *)
(***************************************************************************)
\* runs of main() in one behaviour
MaxRuns == 2
\* files that vanish from the tree in one behaviour
MaxFaults == 1
\* symbolic links the kernel follows in one path resolution before ELOOP
\* (40 on Linux)
SymLoopMax == 2

(***************************************************************************)
(* Strings are sequences of character codes, compared bytewise.            *)
(***************************************************************************)
Chr == [dot |-> 46, slash |-> 47, a |-> 97, b |-> 98]

NameA == <<Chr.a>>
NameAB == <<Chr.a, Chr.dot, Chr.b>>
NameB == <<Chr.b>>

\* the order os.scandir lists the entries of a directory in (the OS's own)
ListOrder == <<NameB, NameA, NameAB>>

\* file contents: byte strings
Hello == <<1, 1>>
World == <<1, 2>>
Unique == <<2, 1, 1>>
Contents == {Hello, World, Unique}

\* the NULL of SQL: no string, and before every string in an ORDER BY
NULL == <<-1>>

Top == <<>>

Absent == [kind |-> "absent"]
FileEntry(c) == [kind |-> "file", content |-> c]
DirEntry(listable) == [kind |-> "dir", listable |-> listable]
LinkEntry(target) == [kind |-> "link", target |-> target]

Min(x, y) == IF x <= y THEN x ELSE y

\* bytewise comparison of two strings (SQLite's BINARY collation, memcmp)
RECURSIVE LexLess(_, _)
LexLess(s, t) ==
    IF t = <<>> THEN FALSE
    ELSE IF s = <<>> THEN TRUE
    ELSE IF Head(s) # Head(t) THEN Head(s) < Head(t)
    ELSE LexLess(Tail(s), Tail(t))

\* pathlib: PurePath.relative_to(start).as_posix()
RECURSIVE AsPosix(_)
AsPosix(lp) ==
    IF lp = <<>> THEN <<>>
    ELSE IF Len(lp) = 1 THEN lp[1]
    ELSE lp[1] \o <<Chr.slash>> \o AsPosix(Tail(lp))

\* pathlib: start / location (the string is split at its separators)
RECURSIVE SplitPath(_, _)
SplitPath(loc, cur) ==
    IF loc = <<>> THEN (IF cur = <<>> THEN <<>> ELSE <<cur>>)
    ELSE IF Head(loc) = Chr.slash
         THEN (IF cur = <<>> THEN <<>> ELSE <<cur>>) \o SplitPath(Tail(loc), <<>>)
         ELSE SplitPath(Tail(loc), Append(cur, Head(loc)))

JoinStart(loc) == SplitPath(loc, <<>>)

\* pathlib: PurePath.suffix, the last dot of the name and what follows it,
\* unless that dot is the first or the last character
LastDot(name) ==
    LET ds == {i \in 1..Len(name) : name[i] = Chr.dot}
    IN IF ds = {} THEN 0 ELSE CHOOSE i \in ds : \A j \in ds : j <= i

Suffix(name) ==
    LET i == LastDot(name)
    IN IF i > 1 /\ i < Len(name) THEN SubSeq(name, i, Len(name)) ELSE <<>>

\* SQLite: substr(s, -length(t)) = t
EndsWith(s, t) ==
    Len(t) <= Len(s) /\ SubSeq(s, Len(s) - Len(t) + 1, Len(s)) = t

(***************************************************************************)
(* The file system: a function from physical paths to entries.             *)
(***************************************************************************)
EntryAt(f, p) == IF p \in DOMAIN f THEN f[p] ELSE Absent

\* the kernel's path resolution: follows every symbolic link of the path,
\* the last component included
RECURSIVE Walk(_, _, _, _)
Walk(f, cur, rest, links) ==
    LET e == EntryAt(f, cur)
    IN IF e.kind = "absent" THEN [st |-> "ENOENT"]
       ELSE IF e.kind = "link"
            THEN IF links + 1 > SymLoopMax THEN [st |-> "ELOOP"]
                 ELSE Walk(f, e.target, rest, links + 1)
       ELSE IF rest = <<>> THEN [st |-> "ok", phys |-> cur, links |-> links]
       ELSE IF e.kind # "dir" THEN [st |-> "ENOTDIR"]
       ELSE Walk(f, Append(cur, Head(rest)), Tail(rest), links)

Resolve(f, lp) == Walk(f, Top, lp, 0)

\* the entry a path names, without following a link in the last component
LEntry(f, lp) ==
    IF lp = <<>> THEN EntryAt(f, Top)
    ELSE LET par == Resolve(f, SubSeq(lp, 1, Len(lp) - 1))
         IN IF par.st = "ok" /\ EntryAt(f, par.phys).kind = "dir"
            THEN EntryAt(f, Append(par.phys, lp[Len(lp)]))
            ELSE Absent

\* os.scandir(root): the names of the directory, or OSError
ScanNames(f, lp) ==
    LET r == Resolve(f, lp)
    IN IF r.st = "ok" /\ f[r.phys].kind = "dir" /\ f[r.phys].listable
       THEN [st |-> "ok",
             names |-> SelectSeq(ListOrder,
                          LAMBDA n : EntryAt(f, Append(r.phys, n)).kind # "absent")]
       ELSE [st |-> "OSError"]

\* os.DirEntry.is_dir(): follows symbolic links; FileNotFoundError is caught,
\* any other OSError is raised
IsDir(f, lp) ==
    LET e == LEntry(f, lp)
    IN IF e.kind = "dir" THEN "yes"
       ELSE IF e.kind = "link"
            THEN LET r == Resolve(f, lp)
                 IN IF r.st = "ok"
                    THEN (IF f[r.phys].kind = "dir" THEN "yes" ELSE "no")
                    ELSE IF r.st = "ELOOP" THEN "raise" ELSE "no"
       ELSE "no"

\* pathlib.Path.stat() / open(filepath, 'rb'): the file a path leads to
ReadFile(f, lp) ==
    LET r == Resolve(f, lp)
    IN IF r.st = "ok" /\ f[r.phys].kind = "file"
       THEN [st |-> "ok", content |-> f[r.phys].content]
       ELSE [st |-> "OSError"]

(***************************************************************************)
(* make_hash: the md5 of a file, read in chunks of bufsize bytes.        *)
(***************************************************************************)
BufSize == 32768
DigestLen == 32

\* hashlib: one update() of the running digest with a chunk of bytes; the
\* digest is a small checksum that, like md5 on real files, tells the
\* contents of the model apart
RECURSIVE Md5Update(_, _)
Md5Update(h, data) ==
    IF data = <<>> THEN h
    ELSE Md5Update((h * 31 + Head(data) + 1) % 97, Tail(data))

\* the loop over f.read(bufsize) until it returns b''
RECURSIVE ReadChunks(_, _)
ReadChunks(h, rest) ==
    IF rest = <<>> THEN h
    ELSE LET n == Min(BufSize, Len(rest))
         IN ReadChunks(Md5Update(h, SubSeq(rest, 1, n)),
                       SubSeq(rest, n + 1, Len(rest)))

HexChar(d) == IF d < 10 THEN 48 + d ELSE 87 + d

\* hashlib: hexdigest(), lowercase hexadecimal of fixed length
RECURSIVE HexDigest(_, _)
HexDigest(h, len) ==
    IF len = 0 THEN <<>>
    ELSE Append(HexDigest(h \div 16, len - 1), HexChar(h % 16))

\* the md5 of the path instead of the bytes of the file
make_hash_of_path(f, lp) ==
    LET r == ReadFile(f, lp)
    IN IF r.st = "ok"
       THEN [st |-> "ok", md5 |-> HexDigest(ReadChunks(0, AsPosix(lp)), DigestLen)]
       ELSE [st |-> "OSError"]

make_hash(f, lp) ==
    LET r == ReadFile(f, lp)
    IN IF r.st = "ok"
       THEN [st |-> "ok", md5 |-> HexDigest(ReadChunks(0, r.content), DigestLen)]
       ELSE [st |-> "OSError"]

(***************************************************************************)
(* The table file(location PK, md5sum, size, name, ext) and its queries. *)
(***************************************************************************)
\* get_file_params: the insert parameters of one yielded path
get_file_params(f, lp) ==
    LET r == ReadFile(f, lp)
    IN IF r.st = "ok"
       THEN [st |-> "ok",
             row |-> [location |-> AsPosix(lp), md5sum |-> NULL,
                      size |-> Len(r.content), name |-> lp[Len(lp)],
                      ext |-> Suffix(lp[Len(lp)])]]
       ELSE [st |-> "OSError"]

\* the primary key and the CHECK constraints of class File
Integrity(rows, r) ==
    /\ r.location # <<>>
    /\ \A q \in rows : q.location # r.location
    /\ r.md5sum = NULL \/ Len(r.md5sum) = DigestLen
    /\ r.size >= 0
    /\ r.name # <<>>
    /\ EndsWith(r.location, r.name)
    /\ r.ext = <<>> \/ EndsWith(r.location, r.ext)

ByLocation(r, q) == LexLess(r.location, q.location)

ByMd5sumLocation(r, q) ==
    \/ LexLess(r.md5sum, q.md5sum)
    \/ r.md5sum = q.md5sum /\ LexLess(r.location, q.location)

\* the two orders exchanged
OrderBySwapped(by_location, r, q) ==
    IF by_location THEN ByMd5sumLocation(r, q) ELSE ByLocation(r, q)

\* ORDER BY location, or ORDER BY md5sum, location
OrderBy(by_location, r, q) ==
    IF by_location THEN ByLocation(r, q) ELSE ByMd5sumLocation(r, q)

\* a set of rows as the sequence the ORDER BY delivers
RECURSIVE SortRows(_, _)
SortRows(rows, by_location) ==
    IF rows = {} THEN <<>>
    ELSE LET m == CHOOSE r \in rows :
                      \A q \in rows \ {r} : OrderBy(by_location, r, q)
         IN <<m>> \o SortRows(rows \ {m}, by_location)

\* the subquery without its HAVING clause
select_all_sizes(rows) == {r.size : r \in rows}

\* SELECT size FROM file GROUP BY size HAVING count(*) > 1
select_duped_sizes(rows) ==
    {s \in {r.size : r \in rows} : Cardinality({r \in rows : r.size = s}) > 1}

\* SELECT location FROM file WHERE size IN (...) ORDER BY location
SizeCollisionQuery(rows) ==
    LET sel == SortRows({r \in rows : r.size \in select_duped_sizes(rows)},
                        TRUE)
    IN [i \in 1..Len(sel) |-> sel[i].location]

\* SELECT md5sum FROM file GROUP BY md5sum HAVING count(*) > 1
\* (GROUP BY puts the NULLs into one group)
select_duped_md5sums(rows) ==
    {m \in {r.md5sum : r \in rows} : Cardinality({r \in rows : r.md5sum = m}) > 1}

\* IN as plain membership, NULL equal to NULL
SqlInNullEqual(x, S) == x \in S

\* SQL: x IN (subquery) is true only of a non-NULL x equal to a non-NULL member
SqlIn(x, S) == x # NULL /\ x \in (S \ {NULL})

\* get_duplicates_query(by_location) executed on the rows
get_duplicates_query(rows, by_location) ==
    LET sel == {r \in rows : SqlIn(r.md5sum, select_duped_md5sums(rows))}
    IN SortRows(sel, by_location)

\* UPDATE file SET md5sum = :md5sum WHERE location = :loc
UpdateMd5(rows, loc, md5) ==
    {IF r.location = loc THEN [r EXCEPT !.md5sum = md5] ELSE r : r \in rows}

\* result.keys(): the columns in the order class File declares them
Header == <<"location", "md5sum", "size", "name", "ext">>

CsvRow(r) == <<r.location, r.md5sum, r.size, r.name, r.ext>>

\* to_csv: writerow(result.keys()), then writerows(result)
to_csv(res) == <<Header>> \o [i \in 1..Len(res) |-> CsvRow(res[i])]

(***************************************************************************)
(* The directory trees a behaviour starts from.                            *)
(***************************************************************************)
PAB == <<NameAB>>
PB == <<NameB>>
PA == <<NameA>>
PA_AB == <<NameA, NameAB>>
PA_B == <<NameA, NameB>>
PA_A == <<NameA, NameA>>

MkTree(ab, b, a, a_ab, a_b, a_a) ==
    (Top :> DirEntry(TRUE)) @@ (PAB :> ab) @@ (PB :> b) @@ (PA :> a)
    @@ (PA_AB :> a_ab) @@ (PA_B :> a_b) @@ (PA_A :> a_a)

FileOrAbsent == {Absent} \cup {FileEntry(c) : c \in Contents}

\* regular files only, in the top directory and in one subdirectory
FlatTrees ==
    {MkTree(ab, b, DirEntry(TRUE), a_ab, a_b, Absent) :
        ab \in FileOrAbsent, b \in FileOrAbsent,
        a_ab \in FileOrAbsent, a_b \in FileOrAbsent}

\* directories that cannot be listed and symbolic links
LinkTrees ==
    {MkTree(FileEntry(Hello), b, DirEntry(l), Absent, FileEntry(c), a_a) :
        b \in {Absent, FileEntry(Hello), DirEntry(TRUE)},
        l \in BOOLEAN,
        c \in {Hello, Unique},
        a_a \in {Absent, DirEntry(FALSE), LinkEntry(Top), LinkEntry(PB)}}

Init ==
    /\ fs \in FlatTrees \cup LinkTrees
    /\ dbExists = FALSE
    /\ table = {}
    /\ txn = {}
    /\ stack = <<>>
    /\ queue = <<>>
    /\ pc = "idle"
    /\ err = "none"
    /\ rec = FALSE
    /\ built = FALSE
    /\ insertDone = FALSE
    /\ result = <<>>
    /\ byLoc = FALSE
    /\ report = <<>>
    /\ yielded = <<>>
    /\ hashCalls = <<>>
    /\ written = {}
    /\ interrupted = "no"
    /\ prevDone = FALSE
    /\ prevByLoc = FALSE
    /\ runs = 0
    /\ faults = 0

(***************************************************************************)
(* main(): build_db, the duplicates query, to_csv.                         *)
(***************************************************************************)
Reverse(s) == [i \in 1..Len(s) |-> s[Len(s) + 1 - i]]

\* build_db without the early return: the store is rebuilt in every run
BuildDbNoEarlyReturn(recreate) ==
    /\ pc \in {"idle", "done", "failed"}
    /\ runs < MaxRuns
    /\ runs' = runs + 1
    /\ rec' = recreate
    /\ prevDone' = (pc = "done")
    /\ prevByLoc' = byLoc
    /\ err' = "none"
    /\ interrupted' = "no"
    /\ yielded' = <<>>
    /\ hashCalls' = <<>>
    /\ written' = {}
    /\ result' = <<>>
    /\ queue' = <<>>
    /\ pc' = "insert"
    /\ built' = TRUE
    /\ dbExists' = TRUE
    /\ table' = {}
    /\ txn' = {}
    /\ insertDone' = FALSE
    /\ stack' = <<Top>>
    /\ UNCHANGED <<fs, byLoc, report, faults>>

\* build_db up to its first transaction: the early return, or unlink and
\* create_all
BuildDb(recreate) ==
    /\ pc \in {"idle", "done", "failed"}
    /\ runs < MaxRuns
    /\ runs' = runs + 1
    /\ rec' = recreate
    /\ prevDone' = (pc = "done")
    /\ prevByLoc' = byLoc
    /\ err' = "none"
    /\ interrupted' = "no"
    /\ yielded' = <<>>
    /\ hashCalls' = <<>>
    /\ written' = {}
    /\ result' = <<>>
    /\ queue' = <<>>
    /\ IF dbExists /\ ~recreate
       THEN /\ pc' = "query"
            /\ built' = FALSE
            /\ stack' = <<>>
            /\ UNCHANGED <<dbExists, table, txn, insertDone>>
       ELSE /\ pc' = "insert"
            /\ built' = TRUE
            /\ dbExists' = TRUE
            /\ table' = {}
            /\ txn' = {}
            /\ insertDone' = FALSE
            /\ stack' = <<Top>>
    /\ UNCHANGED <<fs, byLoc, report, faults>>

\* the for loop of iterfilepaths over the entries of root, with the consumer
\* of each yielded path: get_file_params and the INSERT
RECURSIVE ScanEntries(_, _, _, _)
ScanEntries(f, root, names, acc) ==
    IF names = <<>> \/ acc.err # "none" THEN acc
    ELSE LET lp == Append(root, Head(names))
             d == IsDir(f, lp)
             g == get_file_params(f, lp)
         IN ScanEntries(f, root, Tail(names),
               IF d = "raise" THEN [acc EXCEPT !.err = "OSError:is_dir"]
               ELSE IF d = "yes" THEN [acc EXCEPT !.dirs = Append(@, lp)]
               ELSE IF g.st # "ok"
                    THEN [acc EXCEPT !.yielded = Append(@, lp),
                                     !.err = "OSError:stat"]
               ELSE IF ~Integrity(acc.rows, g.row)
                    THEN [acc EXCEPT !.yielded = Append(@, lp),
                                     !.err = "IntegrityError"]
               ELSE [acc EXCEPT !.yielded = Append(@, lp),
                                !.rows = @ \cup {g.row}])

\* iterfilepaths with the OSError of os.scandir ending the generator
IterDirRaising(f, root, rows) ==
    LET sc == ScanNames(f, root)
        acc == [rows |-> rows, dirs |-> <<>>, yielded |-> <<>>, err |-> "none"]
    IN IF sc.st # "ok" THEN [acc EXCEPT !.err = "OSError:scandir"]
       ELSE ScanEntries(f, root, sc.names, acc)

\* iterfilepaths: os.scandir(root), "except OSError: continue", the for loop
IterDir(f, root, rows) ==
    LET sc == ScanNames(f, root)
        acc == [rows |-> rows, dirs |-> <<>>, yielded |-> <<>>, err |-> "none"]
    IN IF sc.st # "ok" THEN acc
       ELSE ScanEntries(f, root, sc.names, acc)

\* one iteration of the while loop of iterfilepaths, consumed by executemany
ScanDir ==
    /\ pc = "insert"
    /\ stack # <<>>
    /\ LET root == stack[Len(stack)]
           rest == SubSeq(stack, 1, Len(stack) - 1)
           acc == IterDir(fs, root, txn)
       IN /\ yielded' = yielded \o acc.yielded
          /\ IF acc.err # "none"
             THEN /\ pc' = "failed"
                  /\ err' = acc.err
                  /\ interrupted' = "insert"
                  /\ txn' = table
                  /\ stack' = <<>>
             ELSE /\ txn' = acc.rows
                  /\ stack' = rest \o Reverse(acc.dirs)
                  /\ UNCHANGED <<pc, err, interrupted>>
    /\ UNCHANGED <<fs, dbExists, table, queue, rec, built, insertDone, result,
                   byLoc, report, hashCalls, written, prevDone, prevByLoc,
                   runs, faults>>

\* the first transaction of build_db commits; add_md5sums executes its query
InsertCommit ==
    /\ pc = "insert"
    /\ stack = <<>>
    /\ table' = txn
    /\ insertDone' = TRUE
    /\ queue' = SizeCollisionQuery(txn)
    /\ pc' = "hash"
    /\ UNCHANGED <<fs, dbExists, txn, stack, err, rec, built, result, byLoc,
                   report, yielded, hashCalls, written, interrupted, prevDone,
                   prevByLoc, runs, faults>>

\* one iteration of the for loop of add_md5sums
HashNext ==
    /\ pc = "hash"
    /\ queue # <<>>
    /\ LET loc == Head(queue)
           h == make_hash(fs, JoinStart(loc))
       IN /\ hashCalls' = Append(hashCalls, loc)
          /\ IF h.st # "ok"
             THEN /\ pc' = "failed"
                  /\ err' = "OSError:open"
                  /\ interrupted' = "hash"
                  /\ txn' = table
                  /\ queue' = <<>>
                  /\ UNCHANGED written
             ELSE /\ txn' = UpdateMd5(txn, loc, h.md5)
                  /\ written' = written \cup {loc}
                  /\ queue' = Tail(queue)
                  /\ UNCHANGED <<pc, err, interrupted>>
    /\ UNCHANGED <<fs, dbExists, table, stack, rec, built, insertDone, result,
                   byLoc, report, yielded, prevDone, prevByLoc, runs, faults>>

\* the second transaction of build_db commits
HashCommit ==
    /\ pc = "hash"
    /\ queue = <<>>
    /\ table' = txn
    /\ pc' = "query"
    /\ UNCHANGED <<fs, dbExists, txn, stack, queue, err, rec, built,
                   insertDone, result, byLoc, report, yielded, hashCalls,
                   written, interrupted, prevDone, prevByLoc, runs, faults>>

\* main: conn.execute(get_duplicates_query(by_location))
ExecQuery(by_location) ==
    /\ pc = "query"
    /\ byLoc' = by_location
    /\ result' = get_duplicates_query(table, by_location)
    /\ pc' = "csv"
    /\ UNCHANGED <<fs, dbExists, table, txn, stack, queue, err, rec, built,
                   insertDone, report, yielded, hashCalls, written,
                   interrupted, prevDone, prevByLoc, runs, faults>>

\* main: to_csv(result)
ToCsv ==
    /\ pc = "csv"
    /\ report' = to_csv(result)
    /\ pc' = "done"
    /\ UNCHANGED <<fs, dbExists, table, txn, stack, queue, err, rec, built,
                   insertDone, result, byLoc, yielded, hashCalls, written,
                   interrupted, prevDone, prevByLoc, runs, faults>>

\* the process is killed inside a transaction of build_db: what the
\* transaction wrote is not committed
Crash ==
    /\ pc \in {"insert", "hash"}
    /\ pc' = "failed"
    /\ err' = "killed"
    /\ interrupted' = pc
    /\ txn' = table
    /\ stack' = <<>>
    /\ queue' = <<>>
    /\ UNCHANGED <<fs, dbExists, table, rec, built, insertDone, result, byLoc,
                   report, yielded, hashCalls, written, prevDone, prevByLoc,
                   runs, faults>>

\* a file of the tree is deleted after the scan, or between two runs
Vanish(p) ==
    /\ pc \in {"hash", "done"}
    /\ faults < MaxFaults
    /\ fs[p].kind = "file"
    /\ fs' = [fs EXCEPT ![p] = Absent]
    /\ faults' = faults + 1
    /\ UNCHANGED <<dbExists, table, txn, stack, queue, pc, err, rec, built,
                   insertDone, result, byLoc, report, yielded, hashCalls,
                   written, interrupted, prevDone, prevByLoc, runs>>

Next ==
    \/ \E recreate \in BOOLEAN : BuildDb(recreate)
    \/ ScanDir
    \/ InsertCommit
    \/ HashNext
    \/ HashCommit
    \/ \E by_location \in BOOLEAN : ExecQuery(by_location)
    \/ ToCsv
    \/ Crash
    \/ \E p \in DOMAIN fs : Vanish(p)

Spec == Init /\ [][Next]_vars

(***************************************************************************)
(* Properties.                                                             *)
(***************************************************************************)
Range(s) == {s[i] : i \in 1..Len(s)}

NoRepeat(s) == \A i, j \in 1..Len(s) : i # j => s[i] # s[j]

\* the record's size is the size of another record too
SizeShared(rows, r) == \E q \in rows : q # r /\ q.size = r.size

\* the record's md5sum is the md5sum of another record too
Md5Shared(rows, r) ==
    r.md5sum # NULL /\ \E q \in rows : q # r /\ q.md5sum = r.md5sum

\* the content of the file a record stands for
ContentOf(r) == ReadFile(fs, JoinStart(r.location))

SameContent(r, q) ==
    /\ ContentOf(r).st = "ok"
    /\ ContentOf(q).st = "ok"
    /\ ContentOf(r).content = ContentOf(q).content

OtherContent(r, q) ==
    /\ ContentOf(r).st = "ok"
    /\ ContentOf(q).st = "ok"
    /\ ContentOf(r).content # ContentOf(q).content

\* build_db ran to its end in this run, on a fresh store
FreshBuild == built /\ pc \in {"query", "csv", "done"}

\* C1: after build_db on a fresh store make_hash was called, once, for exactly
\* the records whose size another record shares, exactly those have an md5sum,
\* and at no moment of the build was it called for a record of unique size.
C1_HashedIffSizeShared ==
    /\ (built /\ insertDone) =>
          \A i \in 1..Len(hashCalls) :
             \E r \in table : r.location = hashCalls[i] /\ SizeShared(table, r)
    /\ FreshBuild =>
          /\ NoRepeat(hashCalls)
          /\ Range(hashCalls) = {r.location : r \in {q \in table : SizeShared(table, q)}}
          /\ \A r \in table : (r.md5sum # NULL) <=> SizeShared(table, r)
          /\ (\A r \in table : ~SizeShared(table, r)) => hashCalls = <<>>

\* a fresh build that hashed some files and left one of unique size unhashed
C1_Witness ==
    /\ FreshBuild
    /\ hashCalls # <<>>
    /\ \E r \in table : r.md5sum = NULL /\ r.location \notin Range(hashCalls)

\* C2: after a fresh build over an unchanged tree, two records of identical
\* content have the same md5sum, both are rows of the duplicates query, and
\* under the default order no row of another md5sum lies between them.
C2_IdenticalContentGrouped ==
    (built /\ pc \in {"csv", "done"} /\ faults = 0) =>
        \A r, q \in table :
            (r # q /\ SameContent(r, q)) =>
                /\ r.md5sum # NULL
                /\ r.md5sum = q.md5sum
                /\ r \in Range(result)
                /\ q \in Range(result)
                /\ ~byLoc =>
                      \A i, j, k \in 1..Len(result) :
                          (i < k /\ k < j /\ result[i] = r /\ result[j] = q)
                              => result[k].md5sum = r.md5sum

\* two sets of identical files, reported in the default order
C2_Witness ==
    /\ built /\ pc = "done" /\ faults = 0 /\ ~byLoc
    /\ Len(result) = 4
    /\ Cardinality({result[i].md5sum : i \in 1..Len(result)}) = 2
    /\ \E r, q \in table : r # q /\ SameContent(r, q)

\* C3: the rows of the report are exactly the records whose md5sum is not NULL
\* and is the md5sum of another record; after a fresh build over an unchanged
\* tree two records of equal size and different content are both hashed, and
\* one whose content no other record has is not in the report.
C3_ReportRows ==
    pc = "done" =>
        /\ Len(report) >= 1
        /\ Range(Tail(report)) = {CsvRow(r) : r \in {q \in table : Md5Shared(table, q)}}
        /\ NoRepeat(Tail(report))
        /\ (built /\ faults = 0) =>
              \A r, q \in table :
                  (r # q /\ r.size = q.size /\ OtherContent(r, q)) =>
                      /\ r.location \in Range(hashCalls)
                      /\ q.location \in Range(hashCalls)
                      /\ (\A o \in table : o # r => ~SameContent(r, o))
                            => CsvRow(r) \notin Range(Tail(report))

\* a report with rows, beside a hashed file that shares its size and not its
\* content and is not in the report, and a record without md5sum
C3_Witness ==
    /\ pc = "done" /\ built /\ faults = 0
    /\ Len(report) > 1
    /\ \E r, q \in table :
          /\ r # q /\ r.size = q.size /\ OtherContent(r, q)
          /\ r.location \in Range(hashCalls)
          /\ CsvRow(r) \notin Range(Tail(report))
    /\ \E r \in table : r.md5sum = NULL

\* C4: in a run with recreate false that follows a run that wrote its report,
\* build_db returns at once (nothing is scanned, inserted or hashed and the
\* table stays as it is), and with the same order the report is rewritten
\* as it was.
C4_RerunIdempotent ==
    [][ /\ (pc = "done" /\ runs' = runs + 1 /\ ~rec') =>
              /\ pc' = "query"
              /\ table' = table
              /\ dbExists'
              /\ yielded' = <<>>
              /\ hashCalls' = <<>>
        /\ (prevDone /\ ~rec /\ runs' = runs) =>
              /\ table' = table
              /\ yielded' = <<>>
              /\ hashCalls' = <<>>
              /\ written' = {}
              /\ pc' \in {"query", "csv", "done"}
              /\ (pc = "csv" /\ byLoc = prevByLoc) => report' = report
      ]_vars

\* a second run without recreate wrote again a report with rows, after a file
\* of the tree had vanished
C4_Witness ==
    /\ pc = "done" /\ prevDone /\ ~rec /\ runs = 2
    /\ byLoc = prevByLoc
    /\ Len(report) > 1
    /\ faults > 0

\* the paths iterfilepaths is to yield: the entries that are no directories
\* of every directory that can be listed and is reached through such
\* directories
RECURSIVE ReachFiles(_, _)
ReachFiles(f, root) ==
    LET sc == ScanNames(f, root)
    IN IF sc.st # "ok" THEN {}
       ELSE UNION {IF IsDir(f, Append(root, n)) = "yes"
                   THEN ReachFiles(f, Append(root, n))
                   ELSE {Append(root, n)} : n \in Range(sc.names)}

\* C5: a directory that cannot be listed is skipped and does not end the
\* scan: the step that meets it only pops it, and a traversal that reaches
\* its end has yielded, once each, the entries that are no directories
\* of all directories that can be listed.
C5_UnlistableSkipped ==
    [][ /\ (pc = "insert" /\ stack # <<>> /\ pc' # "failed"
            /\ ScanNames(fs, stack[Len(stack)]).st # "ok") =>
              /\ pc' = "insert"
              /\ stack' = SubSeq(stack, 1, Len(stack) - 1)
              /\ yielded' = yielded
              /\ txn' = txn
        /\ (pc = "insert" /\ stack # <<>>
            /\ ScanNames(fs, stack[Len(stack)]).st # "ok") => err' # "OSError:scandir"
        /\ (pc = "insert" /\ pc' = "hash") =>
              /\ NoRepeat(yielded)
              /\ Range(yielded) = ReachFiles(fs, Top)
              /\ {r.location : r \in table'} = {AsPosix(lp) : lp \in Range(yielded)}
      ]_vars

\* the directory a/a cannot be listed, the scan went on and the report
\* names the duplicates of the directories that can be
C5_Witness ==
    /\ pc = "done" /\ built /\ faults = 0
    /\ fs[PA_A] = DirEntry(FALSE)
    /\ fs[PA].listable
    /\ Len(report) > 1
    /\ AsPosix(PA_B) \in {report[i][1] : i \in 2..Len(report)}

\* C6: the report is the header row and then the rows of the query in the
\* order the query delivered them; that order is ascending by (md5sum,
\* location), or by location alone with by_location.
C6_ReportOrder ==
    pc = "done" =>
        /\ Len(report) = Len(result) + 1
        /\ report[1] = Header
        /\ \A i \in 1..Len(result) : report[i + 1] = CsvRow(result[i])
        /\ \A i, j \in 2..Len(report) :
              i < j =>
                 IF byLoc THEN LexLess(report[i][1], report[j][1])
                 ELSE \/ LexLess(report[i][2], report[j][2])
                      \/ /\ report[i][2] = report[j][2]
                         /\ LexLess(report[i][1], report[j][1])

\* a report of four rows in the default order, which is not the order of
\* the locations
C6_Witness ==
    /\ pc = "done" /\ ~byLoc
    /\ Len(report) = 5
    /\ \E i, j \in 2..Len(report) : i < j /\ LexLess(report[j][1], report[i][1])

\* C7: a file that cannot be read in the hash phase does not end the run.
C7_HashFaultNotEscalated ==
    ~(pc = "failed" /\ err = "OSError:open")

\* C8: the md5sums written before the run was interrupted in the hash phase
\* are in the store after the interruption.
C8_WrittenHashesSurvive ==
    (pc = "failed" /\ interrupted = "hash") =>
        \A r \in table : r.location \in written => r.md5sum # NULL

\* C9: no path that leads through a symbolic link is pushed on the stack of
\* iterfilepaths.
C9_NoLinkOnStack ==
    \A i \in 1..Len(stack) :
        \A n \in 1..Len(stack[i]) :
            LEntry(fs, SubSeq(stack[i], 1, n)).kind # "link"

\* C10: when build_db returns early and the duplicates query is executed, the
\* store holds the records of a complete traversal and every record whose
\* size another record shares has an md5sum.
C10_ReusedStoreIsHashed ==
    (pc = "query" /\ ~built) =>
        /\ insertDone
        /\ \A r \in table : SizeShared(table, r) => r.md5sum # NULL

====
